---- MODULE Spec2Model ----
(***************************************************************************)
(* A model of the AI Study Tutor core (src/app.py): the completion client, *)
(* the balanced-brace JSON extractor, the quiz parser and normaliser, the  *)
(* scorer, and the two quiz callbacks that hold the session quiz.          *)
(*                                                                         *)
(* Text is a sequence of one-character strings.  A Python value (what      *)
(* json.loads returns) is a record [t |-> tag, v |-> payload]:             *)
(*   "str"   v = sequence of characters                                    *)
(*   "int"   v = the integer                                               *)
(*   "float" v = the lexeme's characters (never used as a number)          *)
(*   "bool"  v = TRUE / FALSE                                              *)
(*   "null"  v = 0                                                         *)
(*   "list"  v = sequence of values                                        *)
(*   "obj"   v = sequence of members [k |-> characters, val |-> value],    *)
(*               in document order; a later duplicate key wins on lookup   *)
(***************************************************************************)
EXTENDS Integers, Sequences, FiniteSets, TLC

VARIABLES
    text,          \* SpecExtract, SpecEmbed: the text handed to the extractor
    block,         \* the extractor's result: [found, s]
    shape,         \* SpecEmbed: the parts the text was built from
    norm_input,       \* SpecNorm: the structure handed to normalize_quiz
    norm_result,      \* SpecNorm: what normalize_quiz did: [raised, val]
    score_input,  \* SpecScore: the selections handed to evaluate_answers
    GROQ_API_KEY,  \* the configured credential, stripped (empty when missing)
    pc,            \* where the callback is: idle, call, request, returned, done
    action,        \* the callback that runs or ran last
    requests,      \* completion requests issued by the running callback
    completion,    \* what generate_with_groq returned: [found, s]
    selected,      \* the radio positions chosen when Evaluate Answers was clicked
    quiz_state,    \* the session quiz (gr.State); SpecScore: the quiz scored
    outputs        \* what the last callback returned to the UI

(***************************************************************************)
(* Characters                                                              *)
(***************************************************************************)
LBRACE == "{"
RBRACE == "}"
QUOTE == "\""
BACKSLASH == "\\"

\* Python's None for an optional text: found = FALSE.
NoneStr == [found |-> FALSE, s |-> <<>>]

SomeStr(s) == [found |-> TRUE, s |-> s]

\* text.find(ch): the first position (1-based) of ch, 0 when absent (Python's -1).
Find(s, ch) ==
    IF \E i \in 1..Len(s) : s[i] = ch
    THEN CHOOSE i \in 1..Len(s) : s[i] = ch /\ \A j \in 1..(i - 1) : s[j] # ch
    ELSE 0

(***************************************************************************)
(* _extract_first_json_object                                              *)
(***************************************************************************)
\* The loop's locals before the first iteration; stop is the index at which the
\* loop returned, 0 while it is still running.
ScanStart == [depth |-> 0, in_str |-> FALSE, escape |-> FALSE, stop |-> 0]

\* A loop body that ignores string literals: every brace counts.
ScanStepNoStrings(st, s, i) ==
    IF st.stop # 0 THEN st
    ELSE IF s[i] = LBRACE THEN [st EXCEPT !.depth = @ + 1]
    ELSE IF s[i] = RBRACE THEN
        IF st.depth - 1 = 0 THEN [st EXCEPT !.depth = 0, !.stop = i]
        ELSE [st EXCEPT !.depth = @ - 1]
    ELSE st

\* One iteration of the for loop (lines 128-144) at index i.
ScanStep(st, s, i) ==
    LET ch == s[i] IN
    IF st.stop # 0 THEN st
    ELSE IF st.in_str THEN
        IF st.escape THEN [st EXCEPT !.escape = FALSE]
        ELSE IF ch = BACKSLASH THEN [st EXCEPT !.escape = TRUE]
        ELSE IF ch = QUOTE THEN [st EXCEPT !.in_str = FALSE]
        ELSE st
    ELSE
        IF ch = QUOTE THEN [st EXCEPT !.in_str = TRUE]
        ELSE IF ch = LBRACE THEN [st EXCEPT !.depth = @ + 1]
        ELSE IF ch = RBRACE THEN
            IF st.depth - 1 = 0 THEN [st EXCEPT !.depth = 0, !.stop = i]
            ELSE [st EXCEPT !.depth = @ - 1]
        ELSE st

\* The iterations lo..hi in order, from the locals st.  The range is split in
\* halves, and the second half runs only when the first did not return.
RECURSIVE ScanRange(_, _, _, _)
ScanRange(st, s, lo, hi) ==
    IF lo > hi THEN st
    ELSE IF lo = hi THEN ScanStep(st, s, lo)
    ELSE
        LET firstHalf == ScanRange(st, s, lo, (lo + hi) \div 2) IN
        IF firstHalf.stop # 0 THEN firstHalf
        ELSE ScanRange(firstHalf, s, ((lo + hi) \div 2) + 1, hi)

extract_first_json_object(s) ==
    LET start == Find(s, LBRACE)
        end == ScanRange(ScanStart, s, start, Len(s))
    IN  IF start = 0 THEN NoneStr
        ELSE IF end.stop # 0 THEN SomeStr(SubSeq(s, start, end.stop))
        ELSE NoneStr

(***************************************************************************)
(* Python values                                                           *)
(***************************************************************************)
Chars(s) == [i \in 1..Len(s) |-> SubSeq(s, i, i)]

PyStr(cs) == [t |-> "str", v |-> cs]
PyInt(n) == [t |-> "int", v |-> n]
PyFloat(lexeme) == [t |-> "float", v |-> lexeme]
PyBool(b) == [t |-> "bool", v |-> b]
PyNone == [t |-> "null", v |-> 0]
PyList(items) == [t |-> "list", v |-> items]
PyDict(members) == [t |-> "obj", v |-> members]

Member(k, val) == [k |-> k, val |-> val]

\* dict.get(key, default): the last member with that key (json.loads builds the
\* dict from the pairs in order, so a repeated key keeps its last value).
RECURSIVE LookupFrom(_, _, _, _)
LookupFrom(members, key, i, default) ==
    IF i = 0 THEN default
    ELSE IF members[i].k = key THEN members[i].val
    ELSE LookupFrom(members, key, i - 1, default)

DictGet(d, key, default) == LookupFrom(d.v, key, Len(d.v), default)

HasKey(d, key) == \E i \in 1..Len(d.v) : d.v[i].k = key

\* The keys of a dict in insertion order, each once.
RECURSIVE DictKeysFrom(_, _, _)
DictKeysFrom(members, i, acc) ==
    IF i > Len(members) THEN acc
    ELSE IF \E j \in 1..Len(acc) : acc[j] = members[i].k
        THEN DictKeysFrom(members, i + 1, acc)
    ELSE DictKeysFrom(members, i + 1, Append(acc, members[i].k))

DictKeys(d) == DictKeysFrom(d.v, 1, <<>>)

(***************************************************************************)
(* json.loads, for the JSON this model writes and the text around it       *)
(***************************************************************************)
WhitespaceChars == {" ", "\t", "\n", "\r"}
ControlChars == {"\t", "\n", "\r", "\f"}
DigitChars == {"0", "1", "2", "3", "4", "5", "6", "7", "8", "9"}
HexChars == DigitChars \cup {"a", "b", "c", "d", "e", "f", "A", "B", "C", "D", "E", "F"}
DigitSeq == <<"0", "1", "2", "3", "4", "5", "6", "7", "8", "9">>

DigitVal(c) == Find(DigitSeq, c) - 1

\* s[i:i+1]: the empty string past the end.
At(s, i) == IF i >= 1 /\ i <= Len(s) THEN s[i] ELSE ""

StartsWith(s, i, lit) ==
    /\ i + Len(lit) - 1 <= Len(s)
    /\ SubSeq(s, i, i + Len(lit) - 1) = lit

RECURSIVE SkipWs(_, _)
SkipWs(s, i) == IF At(s, i) \in WhitespaceChars THEN SkipWs(s, i + 1) ELSE i

RECURSIVE DigitsEnd(_, _)
DigitsEnd(s, i) == IF At(s, i) \in DigitChars THEN DigitsEnd(s, i + 1) ELSE i

RECURSIVE DecimalValue(_, _, _, _)
DecimalValue(s, i, j, acc) ==
    IF i >= j THEN acc ELSE DecimalValue(s, i + 1, j, 10 * acc + DigitVal(s[i]))

Fail == [ok |-> FALSE, val |-> PyNone, pos |-> 0]

Ok(val, pos) == [ok |-> TRUE, val |-> val, pos |-> pos]

\* py_scanstring (strict): i is the index after the opening quote.
RECURSIVE ScanString(_, _, _)
ScanString(s, i, acc) ==
    LET ch == At(s, i)
        esc == At(s, i + 1)
    IN  IF ch = "" THEN Fail
        ELSE IF ch = QUOTE THEN Ok(PyStr(acc), i + 1)
        ELSE IF ch \in ControlChars THEN Fail
        ELSE IF ch # BACKSLASH THEN ScanString(s, i + 1, Append(acc, ch))
        ELSE IF esc \in {QUOTE, BACKSLASH, "/"} THEN ScanString(s, i + 2, Append(acc, esc))
        ELSE IF esc = "n" THEN ScanString(s, i + 2, Append(acc, "\n"))
        ELSE IF esc = "t" THEN ScanString(s, i + 2, Append(acc, "\t"))
        ELSE IF esc = "r" THEN ScanString(s, i + 2, Append(acc, "\r"))
        ELSE IF esc = "f" THEN ScanString(s, i + 2, Append(acc, "\f"))
        ELSE IF esc = "b" THEN ScanString(s, i + 2, Append(acc, "<BS>"))
        ELSE IF esc = "u" /\ \A k \in 2..5 : At(s, i + k) \in HexChars
            THEN ScanString(s, i + 6,
                    Append(acc, "<U+" \o s[i + 2] \o s[i + 3] \o s[i + 4] \o s[i + 5] \o ">"))
        ELSE Fail

\* NUMBER_RE: (-?(?:0|[1-9]\d*))(\.\d+)?([eE][-+]?\d+)?
ScanNumber(s, i) ==
    LET d0 == IF At(s, i) = "-" THEN i + 1 ELSE i
        intEnd == IF At(s, d0) = "0" THEN d0 + 1 ELSE DigitsEnd(s, d0)
        fracEnd == IF At(s, intEnd) = "." /\ At(s, intEnd + 1) \in DigitChars
                   THEN DigitsEnd(s, intEnd + 1) ELSE intEnd
        e0 == IF At(s, fracEnd + 1) \in {"+", "-"} THEN fracEnd + 2 ELSE fracEnd + 1
        expEnd == IF At(s, fracEnd) \in {"e", "E"} /\ At(s, e0) \in DigitChars
                  THEN DigitsEnd(s, e0) ELSE fracEnd
        magnitude == DecimalValue(s, d0, intEnd, 0)
    IN  IF intEnd = d0 THEN Fail
        ELSE IF expEnd > intEnd THEN Ok(PyFloat(SubSeq(s, i, expEnd - 1)), expEnd)
        ELSE Ok(PyInt(IF d0 > i THEN 0 - magnitude ELSE magnitude), intEnd)

RECURSIVE ScanOnce(_, _), ScanMembers(_, _, _), ScanElements(_, _, _)

\* scan_once: the value that starts at index i.
ScanOnce(s, i) ==
    LET ch == At(s, i) IN
    IF ch = QUOTE THEN ScanString(s, i + 1, <<>>)
    ELSE IF ch = LBRACE THEN
        LET j == SkipWs(s, i + 1) IN
        IF At(s, j) = RBRACE THEN Ok(PyDict(<<>>), j + 1)
        ELSE IF At(s, j) = QUOTE THEN ScanMembers(s, j + 1, <<>>)
        ELSE Fail
    ELSE IF ch = "[" THEN
        LET j == SkipWs(s, i + 1) IN
        IF At(s, j) = "]" THEN Ok(PyList(<<>>), j + 1)
        ELSE ScanElements(s, j, <<>>)
    ELSE IF StartsWith(s, i, Chars("null")) THEN Ok(PyNone, i + 4)
    ELSE IF StartsWith(s, i, Chars("true")) THEN Ok(PyBool(TRUE), i + 4)
    ELSE IF StartsWith(s, i, Chars("false")) THEN Ok(PyBool(FALSE), i + 5)
    ELSE IF ScanNumber(s, i).ok THEN ScanNumber(s, i)
    ELSE IF StartsWith(s, i, Chars("NaN")) THEN Ok(PyFloat(Chars("NaN")), i + 3)
    ELSE IF StartsWith(s, i, Chars("Infinity")) THEN Ok(PyFloat(Chars("Infinity")), i + 8)
    ELSE IF StartsWith(s, i, Chars("-Infinity")) THEN Ok(PyFloat(Chars("-Infinity")), i + 9)
    ELSE Fail

\* JSONObject's loop: i is the index after the opening quote of the next key.
ScanMembers(s, i, acc) ==
    LET key == ScanString(s, i, <<>>) IN
    IF ~key.ok THEN Fail
    ELSE
        LET colon == SkipWs(s, key.pos) IN
        IF At(s, colon) # ":" THEN Fail
        ELSE
            LET value == ScanOnce(s, SkipWs(s, colon + 1)) IN
            IF ~value.ok THEN Fail
            ELSE
                LET pairs == Append(acc, Member(key.val.v, value.val))
                    j == SkipWs(s, value.pos)
                    k == SkipWs(s, j + 1)
                IN  IF At(s, j) = RBRACE THEN Ok(PyDict(pairs), j + 1)
                    ELSE IF At(s, j) # "," THEN Fail
                    ELSE IF At(s, k) # QUOTE THEN Fail
                    ELSE ScanMembers(s, k + 1, pairs)

\* JSONArray's loop: i is the index of the next element.
ScanElements(s, i, acc) ==
    LET value == ScanOnce(s, i) IN
    IF ~value.ok THEN Fail
    ELSE
        LET items == Append(acc, value.val)
            j == SkipWs(s, value.pos)
        IN  IF At(s, j) = "]" THEN Ok(PyList(items), j + 1)
            ELSE IF At(s, j) # "," THEN Fail
            ELSE ScanElements(s, SkipWs(s, j + 1), items)

\* json.loads(s): [ok, val]; ok = FALSE stands for the JSONDecodeError it raises.
json_loads(s) ==
    LET r == ScanOnce(s, SkipWs(s, 1)) IN
    IF r.ok /\ SkipWs(s, r.pos) = Len(s) + 1 THEN r ELSE Fail

(***************************************************************************)
(* Python operations the quiz functions use                                *)
(***************************************************************************)
\* sub is a contiguous run of s (str.__contains__).
IsSubstring(sub, s) ==
    \E i \in 1..(Len(s) - Len(sub) + 1) : SubSeq(s, i, i + Len(sub) - 1) = sub

\* `key in parsed` for a text key: "yes", "no", or "TypeError" for a value that
\* is no container (int, float, bool, None).
PyIn(key, parsed) ==
    IF parsed.t = "obj" THEN (IF HasKey(parsed, key) THEN "yes" ELSE "no")
    ELSE IF parsed.t = "list" THEN
        (IF \E i \in 1..Len(parsed.v) : parsed.v[i].t = "str" /\ parsed.v[i].v = key
         THEN "yes" ELSE "no")
    ELSE IF parsed.t = "str" THEN (IF IsSubstring(key, parsed.v) THEN "yes" ELSE "no")
    ELSE "TypeError"

\* isinstance(v, int): bool is a subclass of int.
IsInstanceInt(v) == v.t \in {"int", "bool"}

\* The number an int or bool compares and indexes as.
NumOf(v) == IF v.t = "bool" THEN (IF v.v THEN 1 ELSE 0) ELSE v.v

\* The decimal digits of n >= 0.
RECURSIVE NatChars(_)
NatChars(n) ==
    IF n < 10 THEN <<DigitSeq[n + 1]>> ELSE Append(NatChars(n \div 10), DigitSeq[(n % 10) + 1])

IntChars(n) == IF n < 0 THEN <<"-">> \o NatChars(0 - n) ELSE NatChars(n)

\* str(o) for the option values json.loads can produce.  A float is written as
\* its lexeme, a nested list or dict as a placeholder (their repr is not modelled).
PyStrOf(o) ==
    IF o.t = "str" THEN o.v
    ELSE IF o.t = "int" THEN IntChars(o.v)
    ELSE IF o.t = "bool" THEN (IF o.v THEN Chars("True") ELSE Chars("False"))
    ELSE IF o.t = "null" THEN Chars("None")
    ELSE IF o.t = "float" THEN o.v
    ELSE <<"<repr>">>

StripChars == {" ", "\t", "\n", "\r", "\f"}

RECURSIVE LStrip(_)
LStrip(s) == IF s # <<>> /\ Head(s) \in StripChars THEN LStrip(Tail(s)) ELSE s

RECURSIVE RStrip(_)
RStrip(s) ==
    IF s # <<>> /\ s[Len(s)] \in StripChars THEN RStrip(SubSeq(s, 1, Len(s) - 1)) ELSE s

\* str.strip()
Strip(s) == RStrip(LStrip(s))

(***************************************************************************)
(* parse_quiz_json                                                         *)
(***************************************************************************)
QUESTIONS == Chars("questions")
QUESTION == Chars("question")
OPTIONS == Chars("options")
ANSWER_INDEX == Chars("answer_index")

EmptyQuizDict == PyDict(<<Member(QUESTIONS, PyList(<<>>))>>)

\* if "questions" in parsed: return parsed, for what json.loads gave; hit = FALSE
\* when json.loads or the `in` test raised, or the key is absent.
ReturnIfQuestions(r) ==
    IF r.ok /\ PyIn(QUESTIONS, r.val) = "yes" THEN [hit |-> TRUE, val |-> r.val]
    ELSE [hit |-> FALSE, val |-> PyNone]

\* One try block: json.loads(s), then the `in` test.
TryLoad(s) == ReturnIfQuestions(json_loads(s))

\* The end of the fallback: the block's parse if it returned, else the empty quiz.
ParsedOrEmpty(fallback) == IF fallback.hit THEN fallback.val ELSE EmptyQuizDict

\* if block: try the block (lines 163-169), else the empty quiz (line 171).
ParseBlock(blk) ==
    IF blk.found /\ blk.s # <<>> THEN ParsedOrEmpty(TryLoad(blk.s)) ELSE EmptyQuizDict

\* The direct attempt's result if it returned, else the fallback on the text.
DirectOrFallback(direct, raw) ==
    IF direct.hit THEN direct.val ELSE ParseBlock(extract_first_json_object(raw))

parse_quiz_json(raw) == DirectOrFallback(TryLoad(raw), raw)

(***************************************************************************)
(* normalize_quiz                                                          *)
(***************************************************************************)
MinOptions == 3
MaxOptions == 5
MaxQuestions == 5

Raised == [raised |-> TRUE, val |-> <<>>]

Returned(val) == [raised |-> FALSE, val |-> val]

\* What `for q in x` yields: [raised, val]; iterating an int, float, bool or None
\* raises TypeError.
Iterate(x) ==
    IF x.t = "list" THEN Returned(x.v)
    ELSE IF x.t = "str" THEN Returned([i \in 1..Len(x.v) |-> PyStr(<<x.v[i]>>)])
    ELSE IF x.t = "obj" THEN Returned([i \in 1..Len(DictKeys(x)) |-> PyStr(DictKeys(x)[i])])
    ELSE Raised

\* The validity test that accepts answer_index = len(options).
IsValidEntryOffByOne(q) ==
    LET question == DictGet(q, QUESTION, PyNone)
        options == DictGet(q, OPTIONS, PyList(<<>>))
        answer_index == DictGet(q, ANSWER_INDEX, PyNone)
    IN  /\ question.t = "str"
        /\ options.t = "list"
        /\ MinOptions <= Len(options.v)
        /\ Len(options.v) <= MaxOptions
        /\ IsInstanceInt(answer_index)
        /\ 0 <= NumOf(answer_index)
        /\ NumOf(answer_index) <= Len(options.v)

\* The if of lines 183-189, for a dict q.
IsValidEntry(q) ==
    LET question == DictGet(q, QUESTION, PyNone)
        options == DictGet(q, OPTIONS, PyList(<<>>))
        answer_index == DictGet(q, ANSWER_INDEX, PyNone)
    IN  /\ question.t = "str"
        /\ options.t = "list"
        /\ MinOptions <= Len(options.v)
        /\ Len(options.v) <= MaxOptions
        /\ IsInstanceInt(answer_index)
        /\ 0 <= NumOf(answer_index)
        /\ NumOf(answer_index) < Len(options.v)

\* The record appended to cleaned (lines 190-196).
CleanEntry(q) ==
    LET options == DictGet(q, OPTIONS, PyList(<<>>)) IN
    [question |-> Strip(DictGet(q, QUESTION, PyNone).v),
     options |-> [i \in 1..Len(options.v) |-> Strip(PyStrOf(options.v[i]))],
     answer_index |-> DictGet(q, ANSWER_INDEX, PyNone)]

\* cleaned[:5]
FirstQuestions(cleaned) ==
    IF Len(cleaned) > MaxQuestions THEN SubSeq(cleaned, 1, MaxQuestions) ELSE cleaned

\* The for loop over the entries: q.get on an entry that is no dict raises
\* AttributeError, whatever was cleaned before it.
RECURSIVE CleanFrom(_, _, _)
CleanFrom(entries, i, cleaned) ==
    IF i > Len(entries) THEN Returned(FirstQuestions(cleaned))
    ELSE IF entries[i].t # "obj" THEN Raised
    ELSE IF IsValidEntry(entries[i])
        THEN CleanFrom(entries, i + 1, Append(cleaned, CleanEntry(entries[i])))
    ELSE CleanFrom(entries, i + 1, cleaned)

\* normalize_quiz(quiz): [raised, val]; quiz.get on a list or a str raises
\* AttributeError.
normalize_quiz(quiz) ==
    IF quiz.t # "obj" THEN Raised
    ELSE
        LET entries == Iterate(DictGet(quiz, QUESTIONS, PyList(<<>>))) IN
        IF entries.raised THEN Raised ELSE CleanFrom(entries.val, 1, <<>>)

(***************************************************************************)
(* total * 0.6 in IEEE-754 double arithmetic.  A natural number below 2^64 *)
(* is four limbs <<l0, l1, l2, l3>> standing for                           *)
(* l0 + l1 * 2^16 + l2 * 2^32 + l3 * 2^48, with l0, l1, l2 < 2^16.         *)
(***************************************************************************)
DoubleMantissaBits == 53
LimbBits == 16
LimbBase == 65536

\* The double nearest to 0.6 is 0x13333333333333 * 2^-53 (0x3FE3333333333333).
SixTenthsMantissa == <<13107, 13107, 13107, 19>>

RECURSIVE Pow2(_)
Pow2(n) == IF n = 0 THEN 1 ELSE 2 * Pow2(n - 1)

\* The number of bits of n: 0 for 0.
RECURSIVE BitLength(_)
BitLength(n) == IF n = 0 THEN 0 ELSE 1 + BitLength(n \div 2)

\* Carries moved up so that the three low limbs are below 2^16.
Carried(a) ==
    LET c0 == a[1] \div LimbBase
        c1 == (a[2] + c0) \div LimbBase
        c2 == (a[3] + c1) \div LimbBase
    IN  <<a[1] % LimbBase, (a[2] + c0) % LimbBase, (a[3] + c1) % LimbBase, a[4] + c2>>

\* a * n for 0 <= n < 2^15.
MulLimbs(a, n) == Carried(<<a[1] * n, a[2] * n, a[3] * n, a[4] * n>>)

\* a >= b.
GeqLimbs(a, b) ==
    \/ a = b
    \/ \E i \in 1..4 : a[i] > b[i] /\ \A j \in (i + 1)..4 : a[j] = b[j]

\* p * 2^-53 rounded to the nearest double, ties to even, again as a multiple
\* of 2^-53: the bits below the top 53 are dropped (at most 16 of them).
RoundToDouble(p) ==
    LET drop == (3 * LimbBits + BitLength(p[4])) - DoubleMantissaBits
        unit == Pow2(drop)
        rem == p[1] % unit
        keptIsOdd == IF drop < LimbBits THEN (p[1] \div unit) % 2 = 1 ELSE p[2] % 2 = 1
        roundUp == 2 * rem > unit \/ (2 * rem = unit /\ keptIsOdd)
    IN  IF drop <= 0 THEN p
        ELSE Carried(<<(p[1] - rem) + (IF roundUp THEN unit ELSE 0), p[2], p[3], p[4]>>)

\* The comparison that uses the exact fraction 3/5 instead of the double 0.6 and
\* is strict.
ReachesSixtyPercentStrict(correct, total) == 5 * correct > 3 * total

\* correct >= (total * 0.6), line 230: the int against the rounded double
\* product, both scaled by 2^53 (2^53 = 32 * 2^48).
ReachesSixtyPercent(correct, total) ==
    GeqLimbs(<<0, 0, 0, correct * 32>>, RoundToDouble(MulLimbs(SixTenthsMantissa, total)))

(***************************************************************************)
(* evaluate_answers                                                        *)
(***************************************************************************)
NO_ANSWER == Chars("No answer")
MASTERED == "Great job. You've mastered this set."
REVIEW_MISSED == "Good work. Review the missed questions and try again."
REVISIT == "Keep practicing. Revisit the explanation and roadmap."
NO_QUIZ == "No quiz generated yet."

\* user_choices[i] if i < len(user_choices) else None (i counts from 1 here).
UserIdx(user_choices, i) == IF i <= Len(user_choices) THEN user_choices[i] ELSE PyNone

\* user_idx == ans_idx: None equals no int, True equals 1.
PyEqIndex(user_idx, ans_idx) == IsInstanceInt(user_idx) /\ NumOf(user_idx) = NumOf(ans_idx)

\* A chosen label that indexes the options with any integer Python accepts
\* (a negative index counts from the end).
ChosenLabelNegativeIndex(user_idx, q) ==
    IF IsInstanceInt(user_idx) /\ NumOf(user_idx) < Len(q.options)
            /\ NumOf(user_idx) >= 0 - Len(q.options)
    THEN (IF NumOf(user_idx) >= 0 THEN q.options[NumOf(user_idx) + 1]
          ELSE q.options[Len(q.options) + NumOf(user_idx) + 1])
    ELSE NO_ANSWER

\* The text shown as "Your answer" (lines 214-218).
ChosenLabel(user_idx, q) ==
    IF IsInstanceInt(user_idx) /\ 0 <= NumOf(user_idx) /\ NumOf(user_idx) < Len(q.options)
    THEN q.options[NumOf(user_idx) + 1]
    ELSE NO_ANSWER

\* One details line (lines 219-222), as its parts.
DetailLine(user_choices, quiz_data, i) ==
    LET q == quiz_data[i]
        user_idx == UserIdx(user_choices, i)
    IN  [n |-> i,
         is_correct |-> PyEqIndex(user_idx, q.answer_index),
         chosen |-> ChosenLabel(user_idx, q),
         correct_label |-> q.options[NumOf(q.answer_index) + 1]]

Details(user_choices, quiz_data) ==
    [i \in 1..Len(quiz_data) |-> DetailLine(user_choices, quiz_data, i)]

CorrectCount(user_choices, quiz_data) ==
    Cardinality({i \in 1..Len(quiz_data) :
                    PyEqIndex(UserIdx(user_choices, i), quiz_data[i].answer_index)})

\* The tier message (lines 228-233).
Feedback(correct, total) ==
    IF correct = total THEN MASTERED
    ELSE IF ReachesSixtyPercent(correct, total) THEN REVIEW_MISSED
    ELSE REVISIT

\* evaluate_answers: the score line as its two numbers, the feedback as the tier
\* message and the details lines.
evaluate_answers(user_choices, quiz_data) ==
    LET correct == CorrectCount(user_choices, quiz_data)
        total == Len(quiz_data)
    IN  IF total = 0
        THEN [score_text |-> [text |-> NO_QUIZ, correct |-> 0, total |-> 0],
              feedback |-> [message |-> "", details |-> <<>>]]
        ELSE [score_text |-> [text |-> "Score", correct |-> correct, total |-> total],
              feedback |-> [message |-> Feedback(correct, total),
                            details |-> Details(user_choices, quiz_data)]]

(***************************************************************************)
(* Texts over the characters the extractor distinguishes                   *)
(***************************************************************************)
MaxTextLen == 5

ScanChars == {LBRACE, RBRACE, QUOTE, BACKSLASH, "x"}

SeqsUpTo(S, n) == UNION {[1..k -> S] : k \in 0..n}

ShortTexts == SeqsUpTo(ScanChars, MaxTextLen)

(***************************************************************************)
(* Well-formed JSON objects written out as text, and prose around them     *)
(***************************************************************************)
MaxStrItems == 2
MaxProseLen == 1

\* What may stand inside a JSON string literal: a plain character, a brace,
\* an escaped quote, an escaped backslash.
StrItems == {<<"x">>, <<LBRACE>>, <<RBRACE>>, <<BACKSLASH, QUOTE>>, <<BACKSLASH, BACKSLASH>>}

RECURSIVE Flatten(_)
Flatten(ss) == IF ss = <<>> THEN <<>> ELSE Head(ss) \o Flatten(Tail(ss))

Quoted(body) == <<QUOTE>> \o body \o <<QUOTE>>

KeyLiterals == {Quoted(Flatten(b)) : b \in SeqsUpTo(StrItems, 1)}

StringLiterals == {Quoted(Flatten(b)) : b \in SeqsUpTo(StrItems, MaxStrItems)}

FlatObjects ==
    {<<LBRACE, RBRACE>>}
        \cup {<<LBRACE>> \o k \o <<":">> \o v \o <<RBRACE>> :
                k \in KeyLiterals, v \in StringLiterals \cup {<<"1">>}}

\* Objects of nesting depth 1 and 2.
WellFormedObjects ==
    FlatObjects \cup {<<LBRACE, QUOTE, "x", QUOTE, ":">> \o o \o <<RBRACE>> : o \in FlatObjects}

ProseChars == {"x", LBRACE, RBRACE, QUOTE}

LeadingProse == SeqsUpTo(ProseChars, MaxProseLen)

TrailingProse == {<<>>, <<"x">>, <<RBRACE>>, <<QUOTE>>, <<LBRACE, "x">>}

(***************************************************************************)
(* SpecExtract: the extractor applied to every short text                  *)
(***************************************************************************)
Pending == [found |-> FALSE, s |-> <<"pending">>]

Unused == "unused"

\* A result variable before its function has run.
NotRun == [ran |-> FALSE]

\* What the specifications of the single functions use.
functionVars == <<text, block, shape, norm_input, norm_result, score_input>>

sessionVars == <<GROQ_API_KEY, pc, action, requests, completion, selected, quiz_state, outputs>>

vars == <<text, block, shape, norm_input, norm_result, score_input, sessionVars>>

\* The variables a specification of one function leaves alone.
NoSession ==
    /\ norm_input = Unused
    /\ norm_result = Unused
    /\ score_input = Unused
    /\ GROQ_API_KEY = Unused
    /\ pc = Unused
    /\ action = Unused
    /\ requests = 0
    /\ completion = Unused
    /\ selected = Unused
    /\ quiz_state = Unused
    /\ outputs = Unused

InitExtract ==
    /\ text \in ShortTexts
    /\ block = Pending
    /\ shape = <<>>
    /\ NoSession

Extract ==
    /\ block = Pending
    /\ block' = extract_first_json_object(text)
    /\ UNCHANGED <<text, shape, norm_input, norm_result, score_input, sessionVars>>

SpecExtract == InitExtract /\ [][Extract]_vars

(***************************************************************************)
(* SpecEmbed: the extractor applied to prose, one object, prose            *)
(***************************************************************************)
InitEmbed ==
    /\ \E pre \in LeadingProse, obj \in WellFormedObjects, post \in TrailingProse :
          /\ shape = [pre |-> pre, obj |-> obj, post |-> post]
          /\ text = pre \o obj \o post
    /\ block = Pending
    /\ NoSession

SpecEmbed == InitEmbed /\ [][Extract]_vars

(***************************************************************************)
(* Quiz entries a model may return                                         *)
(***************************************************************************)
Entry(question, options, answer_index) ==
    PyDict(<<Member(QUESTION, question), Member(OPTIONS, options),
             Member(ANSWER_INDEX, answer_index)>>)

Labels(names) == PyList([i \in 1..Len(names) |-> PyStr(Chars(names[i]))])

EntryPlain == Entry(PyStr(Chars("q1")), Labels(<<"a", "b", "c">>), PyInt(0))

\* Two options with the same label once trimmed; the second is the answer.
EntryDuplicate == Entry(PyStr(Chars(" q2 ")), Labels(<<"a", " a", "}">>), PyInt(1))

EntryIndexAtLen == Entry(PyStr(Chars("q3")), Labels(<<"a", "b", "c">>), PyInt(3))

EntryBlankQuestion == Entry(PyStr(Chars("  ")), Labels(<<"a", "b", "c">>), PyInt(2))

EntryNotDict == PyInt(7)

EntryFiveOptions == Entry(PyStr(Chars("q5")), Labels(<<"a", "b", "c", "d", "e">>), PyInt(3))

EntryBoolIndex == Entry(PyStr(Chars("q6")), Labels(<<"a", "b", "c">>), PyBool(TRUE))

EntryMixedOptions ==
    Entry(PyStr(Chars("q7")),
          PyList(<<PyInt(10), PyNone, PyBool(FALSE), PyStr(Chars(" x "))>>), PyInt(3))

RejectedEntries ==
    {Entry(PyStr(Chars("q")), Labels(<<"a", "b">>), PyInt(0)),
     Entry(PyStr(Chars("q")), Labels(<<"a", "b", "c", "d", "e", "f">>), PyInt(5)),
     Entry(PyStr(Chars("q")), Labels(<<"a", "b", "c">>), PyInt(-1)),
     Entry(PyStr(Chars("q")), Labels(<<"a", "b", "c">>), PyFloat(Chars("1.0"))),
     Entry(PyStr(Chars("q")), Labels(<<"a", "b", "c">>), PyStr(Chars("1"))),
     Entry(PyStr(Chars("q")), Labels(<<"a", "b", "c">>), PyNone),
     Entry(PyInt(1), Labels(<<"a", "b", "c">>), PyInt(0)),
     Entry(PyStr(Chars("q")), PyStr(Chars("abc")), PyInt(0)),
     PyDict(<<Member(OPTIONS, Labels(<<"a", "b", "c">>)), Member(ANSWER_INDEX, PyInt(0))>>),
     PyDict(<<Member(QUESTION, PyStr(Chars("q"))), Member(ANSWER_INDEX, PyInt(0))>>),
     PyDict(<<>>)}

QuizDict(questions) == PyDict(<<Member(QUESTIONS, questions)>>)

\* Structures whose `questions` value is no list of dicts.
OddQuizDicts ==
    {QuizDict(PyInt(5)), QuizDict(PyNone), QuizDict(PyBool(TRUE)),
     QuizDict(PyStr(<<>>)), QuizDict(PyStr(Chars("ab"))),
     QuizDict(PyDict(<<>>)), QuizDict(PyDict(<<Member(Chars("a"), PyInt(1))>>)),
     QuizDict(PyList(<<PyStr(Chars("q"))>>)), QuizDict(PyList(<<PyList(<<>>)>>)),
     PyDict(<<Member(QUESTIONS, PyList(<<EntryPlain>>)), Member(QUESTIONS, PyList(<<>>))>>)}

(***************************************************************************)
(* SpecNorm: normalize_quiz applied to parsed structures                   *)
(***************************************************************************)
MaxEntries == 6

NormEntryPool == {EntryPlain, EntryDuplicate, EntryIndexAtLen, EntryBlankQuestion, EntryNotDict}

NormInputs ==
    {QuizDict(PyList(es)) : es \in SeqsUpTo(NormEntryPool, MaxEntries)}
        \cup {QuizDict(PyList(<<EntryPlain, e, EntryFiveOptions>>)) :
                e \in RejectedEntries \cup {EntryBoolIndex, EntryMixedOptions}}
        \cup OddQuizDicts

InitNorm ==
    /\ norm_input \in NormInputs
    /\ norm_result = NotRun
    /\ text = Unused
    /\ block = Unused
    /\ shape = Unused
    /\ score_input = Unused
    /\ GROQ_API_KEY = Unused
    /\ pc = Unused
    /\ action = Unused
    /\ requests = 0
    /\ completion = Unused
    /\ selected = Unused
    /\ quiz_state = Unused
    /\ outputs = Unused

Normalize ==
    /\ norm_result = NotRun
    /\ norm_result' = normalize_quiz(norm_input)
    /\ UNCHANGED <<text, block, shape, norm_input, score_input, sessionVars>>

SpecNorm == InitNorm /\ [][Normalize]_vars

(***************************************************************************)
(* SpecScore: evaluate_answers applied to normalised quizzes               *)
(***************************************************************************)
MaxSelections == 5

ScoreEntries ==
    <<EntryPlain, EntryDuplicate, EntryMixedOptions, EntryBoolIndex, EntryFiveOptions>>

Reversed(es) == [i \in 1..Len(es) |-> es[Len(es) + 1 - i]]

\* The quizzes normalize_quiz makes of the prefixes of that list, and of the
\* list reversed.
ScoreQuizzes ==
    {normalize_quiz(QuizDict(PyList(SubSeq(ScoreEntries, 1, n)))).val : n \in 0..Len(ScoreEntries)}
        \cup {normalize_quiz(QuizDict(PyList(Reversed(ScoreEntries)))).val}

SelectionValues == {PyNone, PyInt(-1), PyInt(0), PyInt(1), PyInt(3)}

InitScore ==
    /\ quiz_state \in ScoreQuizzes
    /\ score_input \in SeqsUpTo(SelectionValues, MaxSelections)
    /\ outputs = NotRun
    /\ text = Unused
    /\ block = Unused
    /\ shape = Unused
    /\ norm_input = Unused
    /\ norm_result = Unused
    /\ GROQ_API_KEY = Unused
    /\ pc = Unused
    /\ action = Unused
    /\ requests = 0
    /\ completion = Unused
    /\ selected = Unused

Score ==
    /\ outputs = NotRun
    /\ outputs' = evaluate_answers(score_input, quiz_state)
    /\ UNCHANGED <<text, block, shape, norm_input, norm_result, score_input,
                   GROQ_API_KEY, pc, action, requests, completion, selected, quiz_state>>

SpecScore == InitScore /\ [][Score]_vars

(***************************************************************************)
(* Model output texts: JSON documents written out, bare and inside prose   *)
(***************************************************************************)
EscapedChar(c) ==
    IF c = QUOTE THEN <<BACKSLASH, QUOTE>>
    ELSE IF c = BACKSLASH THEN <<BACKSLASH, BACKSLASH>>
    ELSE IF c = "\n" THEN <<BACKSLASH, "n">>
    ELSE IF c = "\t" THEN <<BACKSLASH, "t">>
    ELSE <<c>>

StringLiteral(cs) == Quoted(Flatten([i \in 1..Len(cs) |-> EscapedChar(cs[i])]))

\* The pieces joined with ", " between them.
RECURSIVE Joined(_)
Joined(pieces) ==
    IF pieces = <<>> THEN <<>>
    ELSE IF Len(pieces) = 1 THEN pieces[1]
    ELSE pieces[1] \o <<",", " ">> \o Joined(Tail(pieces))

\* The JSON text of a value, as json.dumps writes it.
RECURSIVE Dumps(_)
Dumps(v) ==
    IF v.t = "str" THEN StringLiteral(v.v)
    ELSE IF v.t = "int" THEN IntChars(v.v)
    ELSE IF v.t = "float" THEN v.v
    ELSE IF v.t = "bool" THEN (IF v.v THEN Chars("true") ELSE Chars("false"))
    ELSE IF v.t = "null" THEN Chars("null")
    ELSE IF v.t = "list" THEN <<"[">> \o Joined([i \in 1..Len(v.v) |-> Dumps(v.v[i])]) \o <<"]">>
    ELSE <<LBRACE>>
            \o Joined([i \in 1..Len(v.v) |->
                          StringLiteral(v.v[i].k) \o <<":", " ">> \o Dumps(v.v[i].val)])
            \o <<RBRACE>>

MaxListLen == 2

SessionEntryPool == {EntryPlain, EntryDuplicate, EntryIndexAtLen, EntryNotDict}

SixEntries ==
    <<EntryPlain, EntryDuplicate, EntryPlain, EntryIndexAtLen, EntryPlain, EntryDuplicate,
      EntryDuplicate, EntryPlain>>

\* JSON values that are no object, some holding the text "questions".
OddDocuments ==
    {PyList(<<PyStr(QUESTIONS)>>), PyStr(QUESTIONS), PyStr(Chars("my questions:")),
     PyList(<<PyInt(1)>>), PyInt(5), PyNone, PyDict(<<>>),
     PyDict(<<Member(Chars("quiz"), PyList(<<EntryPlain>>))>>)}

QuizDocuments ==
    {QuizDict(PyList(es)) : es \in SeqsUpTo(SessionEntryPool, MaxListLen)}
        \cup {QuizDict(PyList(SixEntries))}
        \cup {QuizDict(PyList(<<e>>)) :
                e \in RejectedEntries
                        \cup {EntryBlankQuestion, EntryFiveOptions, EntryBoolIndex, EntryMixedOptions}}
        \cup OddQuizDicts
        \cup OddDocuments

NotJson ==
    {<<>>, Chars("I cannot help with that."), Chars("{\"questions\": [{\"question\": \"q"),
     Chars("{'questions': []}"), Chars("~~~json\n{\"questions\": []}\n~~~")}

\* What the model may answer a quiz prompt with.
QuizOutputs ==
    {Dumps(d) : d \in QuizDocuments}
        \cup {Chars("Sure! ") \o Dumps(d) \o Chars(" Hope that helps!") : d \in QuizDocuments}
        \cup {Chars("Use {braces}: ") \o Dumps(QuizDict(PyList(<<EntryPlain>>)))}
        \cup NotJson

\* What the model may answer the other prompts with.
ProseOutputs == {Chars("1. First step."), <<>>}

ModelOutputs(a) == IF a = "quiz" THEN QuizOutputs ELSE ProseOutputs

\* str(e) of the exceptions the request may raise.
ErrorTexts == {Chars("Connection error."), Chars("Error code: 401 - {'error': {'message': 'x'}}")}

(***************************************************************************)
(* generate_with_groq, step by step                                        *)
(***************************************************************************)
MISSING_KEY == Chars("x Missing GROQ_API_KEY. Set it in your environment or Space secrets.")
API_ERROR == Chars("x API error: ")

GenerationActions == {"explanation", "resources", "roadmap", "quiz"}

\* A generation button is clicked: its callback builds the prompt and calls
\* generate_with_groq.
Click(a) ==
    /\ pc = "idle"
    /\ pc' = "call"
    /\ action' = a
    /\ UNCHANGED <<GROQ_API_KEY, requests, completion, selected, quiz_state, outputs>>
    /\ UNCHANGED functionVars

\* if not GROQ_API_KEY: return the message (line 39).
CheckKey ==
    /\ pc = "call"
    /\ IF GROQ_API_KEY = <<>>
       THEN pc' = "returned" /\ completion' = SomeStr(MISSING_KEY)
       ELSE pc' = "request" /\ UNCHANGED completion
    /\ UNCHANGED <<GROQ_API_KEY, action, requests, selected, quiz_state, outputs>>
    /\ UNCHANGED functionVars

\* A request that is issued again after it failed once.
RequestWithRetry ==
    /\ pc = "request"
    /\ requests' = requests + 1
    /\ \/ \E out \in ModelOutputs(action) : completion' = SomeStr(out) /\ pc' = "returned"
       \/ requests = 0 /\ pc' = "request" /\ UNCHANGED completion
       \/ \E e \in ErrorTexts : completion' = SomeStr(API_ERROR \o e) /\ pc' = "returned"
    /\ UNCHANGED <<GROQ_API_KEY, action, selected, quiz_state, outputs>>
    /\ UNCHANGED functionVars

\* client.chat.completions.create inside try/except (lines 42-51): one request,
\* which returns the content or raises.
Request ==
    /\ pc = "request"
    /\ requests' = requests + 1
    /\ \/ \E out \in ModelOutputs(action) : completion' = SomeStr(out)
       \/ \E e \in ErrorTexts : completion' = SomeStr(API_ERROR \o e)
    /\ pc' = "returned"
    /\ UNCHANGED <<GROQ_API_KEY, action, selected, quiz_state, outputs>>
    /\ UNCHANGED functionVars

(***************************************************************************)
(* The callbacks                                                           *)
(***************************************************************************)
\* on_generate_explanation, on_generate_resources, on_generate_roadmap return the
\* completion as it is.
ReturnText ==
    /\ pc = "returned"
    /\ action \in {"explanation", "resources", "roadmap"}
    /\ outputs' = [raised |-> FALSE, markdown |-> completion.s]
    /\ pc' = "done"
    /\ UNCHANGED <<GROQ_API_KEY, action, requests, completion, selected, quiz_state>>
    /\ UNCHANGED functionVars

QUIZ_GENERATED == Chars("Quiz generated. Select your answers below.")

\* The five radio updates (lines 260-273).
RadioUpdates(quiz) ==
    [i \in 1..MaxQuestions |->
        IF i <= Len(quiz)
        THEN [visible |-> TRUE, label |-> <<"Q", i>> \o quiz[i].question,
              choices |-> quiz[i].options]
        ELSE [visible |-> FALSE, label |-> <<"Question">>,
              choices |-> <<Chars("Option 1"), Chars("Option 2"), Chars("Option 3")>>]]

\* What a callback that raised leaves behind: the UI reports the error and
\* updates no component and no state.
RaisedOutputs == [raised |-> TRUE]

\* on_generate_quiz after generate_with_groq returned (lines 257-275).
FinishQuiz ==
    /\ pc = "returned"
    /\ action = "quiz"
    /\ \E quiz \in {normalize_quiz(parse_quiz_json(completion.s))} :
       IF quiz.raised
       THEN outputs' = RaisedOutputs /\ UNCHANGED quiz_state
       ELSE /\ quiz_state' = quiz.val
            /\ outputs' = [raised |-> FALSE,
                           radios |-> RadioUpdates(quiz.val),
                           quiz_info |-> IF quiz.val = <<>> THEN completion.s ELSE QUIZ_GENERATED]
    /\ pc' = "done"
    /\ UNCHANGED <<GROQ_API_KEY, action, requests, completion, selected>>
    /\ UNCHANGED functionVars

\* What the user may do with the radio of question q: leave it, choose the
\* option at a position, or (through the API) send a label that is no option.
NothingChosen == [kind |-> "none", pos |-> 0]
ForeignLabel == [kind |-> "foreign", pos |-> 0]
OptionAt(p) == [kind |-> "option", pos |-> p]

Picks(q) == {NothingChosen, ForeignLabel} \cup {OptionAt(p) : p \in 0..(Len(q.options) - 1)}

AllPicks == {NothingChosen, ForeignLabel} \cup {OptionAt(p) : p \in 0..(MaxOptions - 1)}

\* The radio's value for a pick: None, or the label of the chosen option.
RadioValue(pick, q) ==
    IF pick.kind = "none" THEN NoneStr
    ELSE IF pick.kind = "foreign" THEN SomeStr(Chars("not an option"))
    ELSE SomeStr(q.options[pick.pos + 1])

\* The index of the chosen label among the options (lines 284-292): list.index
\* finds the first equal label, ValueError gives None.
SelectionIndex(chosen, q) ==
    IF ~chosen.found THEN PyNone
    ELSE IF Find(q.options, chosen.s) = 0 THEN PyNone
    ELSE PyInt(Find(q.options, chosen.s) - 1)

on_display_results(quiz_in, selected_values) ==
    evaluate_answers([i \in 1..Len(quiz_in) |-> SelectionIndex(selected_values[i], quiz_in[i])],
                     quiz_in)

\* Evaluate Answers is clicked with the radios as the user left them.
Evaluate ==
    /\ pc = "idle"
    /\ \E picks \in [1..Len(quiz_state) -> AllPicks] :
          /\ \A i \in 1..Len(quiz_state) : picks[i] \in Picks(quiz_state[i])
          /\ selected' = picks
          /\ outputs' = on_display_results(quiz_state,
                            [i \in 1..Len(quiz_state) |-> RadioValue(picks[i], quiz_state[i])])
    /\ action' = "evaluate"
    /\ pc' = "done"
    /\ UNCHANGED <<GROQ_API_KEY, requests, completion, quiz_state>>
    /\ UNCHANGED functionVars

\* The UI has shown what the callback returned (or its error) and waits for the
\* next click.  Of the session only the quiz matters to a later callback: the
\* radios' values are the inputs of the next Evaluate.
Settle ==
    /\ pc = "done"
    /\ pc' = "idle"
    /\ action' = "none"
    /\ requests' = 0
    /\ completion' = NotRun
    /\ selected' = <<>>
    /\ outputs' = NotRun
    /\ UNCHANGED <<GROQ_API_KEY, quiz_state>>
    /\ UNCHANGED functionVars

Init ==
    /\ GROQ_API_KEY \in {<<>>, Chars("gsk")}
    /\ pc = "idle"
    /\ action = "none"
    /\ requests = 0
    /\ completion = NotRun
    /\ selected = <<>>
    /\ quiz_state = <<>>
    /\ outputs = NotRun
    /\ text = Unused
    /\ block = Unused
    /\ shape = Unused
    /\ norm_input = Unused
    /\ norm_result = Unused
    /\ score_input = Unused

Next ==
    \/ \E a \in GenerationActions : Click(a)
    \/ CheckKey
    \/ Request
    \/ ReturnText
    \/ FinishQuiz
    \/ Evaluate
    \/ Settle

Spec == Init /\ [][Next]_vars

(***************************************************************************)
(* The string-aware lexer state after a whole text, as a left fold         *)
(***************************************************************************)
LexStep(st, ch) ==
    IF st.in_str THEN
        IF st.escape THEN [st EXCEPT !.escape = FALSE]
        ELSE IF ch = BACKSLASH THEN [st EXCEPT !.escape = TRUE]
        ELSE IF ch = QUOTE THEN [st EXCEPT !.in_str = FALSE]
        ELSE st
    ELSE
        IF ch = QUOTE THEN [st EXCEPT !.in_str = TRUE]
        ELSE IF ch = LBRACE THEN [st EXCEPT !.depth = @ + 1]
        ELSE IF ch = RBRACE THEN [st EXCEPT !.depth = @ - 1]
        ELSE st

RECURSIVE LexState(_)
LexState(s) ==
    IF s = <<>> THEN [depth |-> 0, in_str |-> FALSE, escape |-> FALSE]
    ELSE LexStep(LexState(SubSeq(s, 1, Len(s) - 1)), s[Len(s)])

\* The string-aware depth, scanned from the first brace, is zero after some character.
DepthReturnsToZero(s) ==
    /\ Find(s, LBRACE) > 0
    /\ \E i \in Find(s, LBRACE)..Len(s) : LexState(SubSeq(s, Find(s, LBRACE), i)).depth = 0

\* s opens with a brace that its last character closes, and nothing closes it earlier.
StringAwareBalanced(s) ==
    /\ Len(s) >= 2
    /\ s[1] = LBRACE
    /\ s[Len(s)] = RBRACE
    /\ LexState(s).depth = 0
    /\ ~LexState(s).in_str
    /\ \A i \in 1..(Len(s) - 1) : LexState(SubSeq(s, 1, i)).depth > 0

\* C2 as stated: for every text that is prose, one well-formed JSON object, prose,
\* the extractor returns exactly that object's substring.
C2_AnyProse ==
    block # Pending => block = SomeStr(shape.obj)

\* C2 amended: when the prose before the object holds no opening brace, the
\* extractor returns exactly the object's substring, whatever the object's strings
\* hold (braces, escaped quotes) and whatever follows the object.
C2_ProseWithoutBrace ==
    (block # Pending /\ Find(shape.pre, LBRACE) = 0) => block = SomeStr(shape.obj)

\* C2's case: prose on both sides, an object whose string value holds a closing
\* brace and an escaped quote, extracted whole.
C2_Witness ==
    /\ block # Pending
    /\ shape.pre = <<"x">>
    /\ shape.post = <<RBRACE>>
    /\ shape.obj = <<LBRACE, QUOTE, "x", QUOTE, ":", QUOTE, RBRACE, BACKSLASH, QUOTE, QUOTE, RBRACE>>
    /\ block = SomeStr(shape.obj)

\* C9: the extractor returns none for a text with no opening brace and for a text
\* whose string-aware depth never returns to zero; what it returns is balanced.
C9_NoneWhenUnbalanced ==
    block # Pending =>
        /\ (Find(text, LBRACE) = 0 \/ ~DepthReturnsToZero(text)) => block = NoneStr
        /\ block.found => StringAwareBalanced(block.s)

\* C9's case: an unterminated string literal hides the closing brace.
C9_Witness ==
    /\ text = <<"x", LBRACE, QUOTE, RBRACE>>
    /\ block = NoneStr

(***************************************************************************)
(* normalize_quiz: what is kept                                            *)
(***************************************************************************)
\* The entries handed to normalize_quiz, when `questions` is a list.
InputEntries == DictGet(norm_input, QUESTIONS, PyList(<<>>)).v

HasQuestionList ==
    /\ norm_result # NotRun
    /\ norm_input.t = "obj"
    /\ DictGet(norm_input, QUESTIONS, PyList(<<>>)).t = "list"

\* The validity test as the specification words it: question is text, options is
\* a sequence of 3 to 5, answer_index is an integer that indexes options.  An
\* entry that is no object has none of these.
PassesValidityTest(e) ==
    /\ e.t = "obj"
    /\ DictGet(e, QUESTION, PyNone).t = "str"
    /\ DictGet(e, OPTIONS, PyList(<<>>)).t = "list"
    /\ Len(DictGet(e, OPTIONS, PyList(<<>>)).v) \in MinOptions..MaxOptions
    /\ DictGet(e, ANSWER_INDEX, PyNone).t \in {"int", "bool"}
    /\ NumOf(DictGet(e, ANSWER_INDEX, PyNone)) \in 0..(Len(DictGet(e, OPTIONS, PyList(<<>>)).v) - 1)

ValidPositions == {i \in 1..Len(InputEntries) : PassesValidityTest(InputEntries[i])}

\* The position of the k-th valid entry.
KthValid(k) == CHOOSE i \in ValidPositions : Cardinality({j \in ValidPositions : j <= i}) = k

KeptIsFirstValidInOrder ==
    /\ ~norm_result.raised
    /\ Len(norm_result.val) =
          (IF Cardinality(ValidPositions) > MaxQuestions THEN MaxQuestions
           ELSE Cardinality(ValidPositions))
    /\ \A k \in 1..Len(norm_result.val) :
          LET e == InputEntries[KthValid(k)] IN
          /\ norm_result.val[k].question = Strip(DictGet(e, QUESTION, PyNone).v)
          /\ Len(norm_result.val[k].options) = Len(DictGet(e, OPTIONS, PyNone).v)
          /\ norm_result.val[k].answer_index = DictGet(e, ANSWER_INDEX, PyNone)

\* C4: every question normalize keeps has a question text that is non-empty after
\* trimming; an entry whose question is empty or blank is never kept.
C4_KeptQuestionNonEmpty ==
    (norm_result # NotRun /\ ~norm_result.raised) =>
        \A k \in 1..Len(norm_result.val) : Strip(norm_result.val[k].question) # <<>>

\* C5: for every `questions` list, normalize returns the first 5 (or fewer) entries
\* that pass the validity test, in their original order; an invalid entry is
\* dropped and costs no valid sibling its place.
C5_FirstValidEntriesKept ==
    HasQuestionList => KeptIsFirstValidInOrder

\* The same statement for lists whose entries are all objects.
FirstValidEntriesKeptAmongObjects ==
    (HasQuestionList /\ \A i \in 1..Len(InputEntries) : InputEntries[i].t = "obj")
        => KeptIsFirstValidInOrder

(***************************************************************************)
(* evaluate_answers: verdicts and tiers                                    *)
(***************************************************************************)
Scored == outputs # NotRun /\ Len(quiz_state) > 0

\* The selection at position i: an integer, or nothing (None, or no such position).
HasSelection(i) == i <= Len(score_input) /\ score_input[i].t = "int"

SelectionMatches(i) ==
    HasSelection(i) /\ score_input[i].v = NumOf(quiz_state[i].answer_index)

SelectionInRange(i) ==
    HasSelection(i) /\ score_input[i].v >= 0 /\ score_input[i].v < Len(quiz_state[i].options)

MatchCount == Cardinality({i \in 1..Len(quiz_state) : SelectionMatches(i)})

\* C6: question i counts as correct exactly when the selection at i equals
\* answer_index, and an unanswered, missing or out-of-range selection counts as
\* incorrect and is reported as "No answer".
C6_VerdictPerQuestion ==
    Scored =>
        /\ Len(outputs.feedback.details) = Len(quiz_state)
        /\ outputs.score_text.correct = MatchCount
        /\ \A i \in 1..Len(quiz_state) :
              /\ outputs.feedback.details[i].is_correct <=> SelectionMatches(i)
              /\ ~SelectionInRange(i) =>
                    /\ ~outputs.feedback.details[i].is_correct
                    /\ outputs.feedback.details[i].chosen = NO_ANSWER
              /\ SelectionInRange(i) =>
                    outputs.feedback.details[i].chosen
                        = quiz_state[i].options[score_input[i].v + 1]

\* C6's case: a quiz of three or more questions scored with one matching
\* selection, one unanswered, one negative, and the rest missing.
C6_Witness ==
    /\ Scored
    /\ Len(quiz_state) >= 3
    /\ Len(score_input) = 3
    /\ SelectionMatches(1)
    /\ score_input[2] = PyNone
    /\ score_input[3] = PyInt(-1)
    /\ outputs.score_text.correct = 1
    /\ outputs.feedback.details[3].chosen = NO_ANSWER

\* C7: with total questions and correct matches, the message is the mastery one
\* exactly when correct = total, the review one exactly when correct < total and
\* 5 * correct >= 3 * total, the revisit one exactly when 5 * correct < 3 * total;
\* the summary line reports correct and total.
C7_FeedbackTier ==
    Scored =>
        /\ outputs.score_text = [text |-> "Score", correct |-> MatchCount, total |-> Len(quiz_state)]
        /\ outputs.feedback.message = MASTERED <=> MatchCount = Len(quiz_state)
        /\ outputs.feedback.message = REVIEW_MISSED <=>
              (MatchCount < Len(quiz_state) /\ 5 * MatchCount >= 3 * Len(quiz_state))
        /\ outputs.feedback.message = REVISIT <=> 5 * MatchCount < 3 * Len(quiz_state)

\* C7's case: exactly 60% (3 of 5) gets the review message.
C7_Witness ==
    /\ Scored
    /\ Len(quiz_state) = 5
    /\ MatchCount = 3
    /\ outputs.feedback.message = REVIEW_MISSED

(***************************************************************************)
(* The session: generation and evaluation callbacks                        *)
(***************************************************************************)
QuizCallbackDone == pc = "done" /\ action = "quiz"

EvaluateDone == pc = "done" /\ action = "evaluate"

\* What parse_quiz_json made of the completion the quiz callback received.
ParsedCompletion == parse_quiz_json(completion.s)

\* C1: whatever the model answered, parse_quiz_json returns a structure with a
\* `questions` key and the quiz callback ends with a quiz and a status text, never
\* with an exception.
C1_QuizCallbackNeverRaises ==
    QuizCallbackDone =>
        /\ ParsedCompletion.t = "obj"
        /\ HasKey(ParsedCompletion, QUESTIONS)
        /\ ~outputs.raised

\* C3: the quiz the session holds has at most 5 questions, each with 3 to 5
\* options and an answer_index that indexes them.
C3_SessionQuizWellFormed ==
    /\ Len(quiz_state) <= MaxQuestions
    /\ \A i \in 1..Len(quiz_state) :
          /\ Len(quiz_state[i].options) >= MinOptions
          /\ Len(quiz_state[i].options) <= MaxOptions
          /\ IsInstanceInt(quiz_state[i].answer_index)
          /\ 0 <= NumOf(quiz_state[i].answer_index)
          /\ NumOf(quiz_state[i].answer_index) < Len(quiz_state[i].options)

\* C3's case: a quiz cut down to five questions has been stored and then
\* evaluated with every question answered.
C3_Witness ==
    /\ EvaluateDone
    /\ Len(quiz_state) = MaxQuestions
    /\ \A i \in 1..Len(quiz_state) : selected[i].kind = "option"

C10_CorrectOptionScoresCorrect ==
    EvaluateDone =>
        \A i \in 1..Len(quiz_state) :
            (selected[i] = OptionAt(NumOf(quiz_state[i].answer_index)))
                => outputs.feedback.details[i].is_correct

\* The same statement for questions whose labels are all different.
CorrectOptionScoresCorrectWithoutDuplicates ==
    EvaluateDone =>
        \A i \in 1..Len(quiz_state) :
            (/\ selected[i] = OptionAt(NumOf(quiz_state[i].answer_index))
             /\ \A a, b \in 1..Len(quiz_state[i].options) :
                   quiz_state[i].options[a] = quiz_state[i].options[b] => a = b)
                => outputs.feedback.details[i].is_correct

====
